---- MODULE Spec2Model ----
(***************************************************************************)
(* Model of the task lifecycle of brettsmith212/ci-test-2: the task model  *)
(* (internal/models), the task service and HTTP handler (internal/services,*)
(* internal/api/handlers) and the worker (internal/worker).                *)
(*                                                                         *)
(* The specifications share the variables:                                 *)
(*   Spec        the orchestrator and one worker on a fresh database;      *)
(*   SpecFair    Spec under fair scheduling of the worker's goroutines;    *)
(*   SpecAPI     Spec together with the GET endpoint;                      *)
(*   SpecSeeded  the same program opened on a database that already holds  *)
(*               one row written through the BeforeCreate hook, while no   *)
(*               new task is posted;                                       *)
(*   SpecTask    the methods of models.Task applied to an in-memory task;  *)
(*   SpecRestart Spec with a restart of the worker process after its exit; *)
(*   SpecList    GET /tasks applied to a table of up to MaxRows rows;      *)
(*   SpecULID    the ids and branch names CreateTask gives to two tasks.   *)
(***************************************************************************)
EXTENDS Integers, FiniteSets, Sequences, Bags, TLC

\* ------------------------------------------------------------------ bounds
MaxTasks == 2          \* task ids 1..MaxTasks, in creation order
MaxAttempts == 3       \* largest attempts value of a seeded / in-memory task
MaxConcurrency == 2    \* configured capacity of Worker.semaphore (--max-concurrency)
MaxRows == 102         \* largest number of rows that match a list request

Ids == 1..MaxTasks
NewPrompts == {"p1"}                    \* prompt of a POST /tasks request
NewRepos == {"r1"}                      \* repo of a POST /tasks request
ULIDPrefixes == {"01J000"}              \* first six characters of a generated ULID
PatchPrompts == {"", "p2"}              \* prompt of a PATCH request, "" when absent
ClockSeconds == {0}                     \* clock seconds in which working directories are named
SeedSummary == "s1"                     \* summary of the row already in the database

\* ------------------------------------------------------------ models.Task
ValidStatuses ==
  {"queued", "running", "retrying", "needs_review", "success", "aborted", "error"}

\* status strings that are not TaskStatus constants
InvalidStatuses == {"invalid", "", "completed", "failed"}

IsValid(ts) ==
  ts \in {"queued", "running", "retrying", "needs_review", "success", "aborted", "error"}

IsTerminal(ts) == ts \in {"success", "aborted", "error"}

\* mutant: the needs_review entry lacks aborted
validTransitions_reviewNoAbort ==
  [ queued       |-> {"running", "aborted"},
    running      |-> {"retrying", "needs_review", "success", "error", "aborted"},
    retrying     |-> {"running", "needs_review", "error", "aborted"},
    needs_review |-> {"running"} ]

validTransitions ==
  [ queued       |-> {"running", "aborted"},
    running      |-> {"retrying", "needs_review", "success", "error", "aborted"},
    retrying     |-> {"running", "needs_review", "error", "aborted"},
    needs_review |-> {"running", "aborted"} ]

\* mutant: the terminal-state rule is missing, only the map is consulted
CanTransitionTo_tableOnly(status, newStatus) ==
  IF status \in DOMAIN validTransitions
    THEN newStatus \in validTransitions[status]
    ELSE FALSE

\* mutant: a terminal status allows no transition at all
CanTransitionTo_terminalFinal(status, newStatus) ==
  IF IsTerminal(status)
    THEN FALSE
    ELSE IF status \in DOMAIN validTransitions
           THEN newStatus \in validTransitions[status]
           ELSE FALSE

CanTransitionTo(status, newStatus) ==
  IF IsTerminal(status)
    THEN newStatus = "aborted"
    ELSE IF status \in DOMAIN validTransitions
           THEN newStatus \in validTransitions[status]
           ELSE FALSE

\* mutant: the status is assigned before the transition is checked
UpdateStatus_assignFirst(t, newStatus) ==
  [task |-> [t EXCEPT !.status = newStatus],
   err |-> IF ~CanTransitionTo(t.status, newStatus) THEN "invalid value" ELSE "nil"]

\* returns the task after the call and the error ("nil" when none)
UpdateStatus(t, newStatus) ==
  IF ~CanTransitionTo(t.status, newStatus)
    THEN [task |-> t, err |-> "invalid value"]
    ELSE [task |-> [t EXCEPT !.status = newStatus], err |-> "nil"]

IncrementAttempts(t) == [t EXCEPT !.attempts = t.attempts + 1]

IsRetryable(t, maxRetries) ==
  /\ t.attempts < maxRetries
  /\ (t.status = "error" \/ t.status = "retrying" \/ t.status = "needs_review")

\* GORM hook: an invalid status is replaced by queued before the insert
BeforeCreate(t) ==
  IF ~IsValid(t.status) THEN [t EXCEPT !.status = "queued"] ELSE t

\* mutant: the hook validates nothing
BeforeUpdate_acceptAll(t) == "nil"

\* GORM hook: the error that aborts the update, "nil" when the row may be written
BeforeUpdate(t) ==
  IF ~IsValid(t.status) THEN "invalid value" ELSE "nil"

\* ------------------------------------------------------------------ state
VARIABLES
  store,      \* tasks table: id -> row, NoTask where no row exists
  nextId,     \* number of rows created so far (ids are time ordered)
  semaphore,  \* number of elements in Worker.semaphore
  engines,    \* bag of running processTask goroutines: position and locals
  ctxDone,    \* Worker.ctx has been cancelled
  loop,       \* position of runWorker: Start "polling", Start "returned", "exited"
  workDirs,   \* bag of directory names: one copy of a name for every goroutine
              \* that has created the directory and has not yet removed it
  lastOp,     \* the call made by the last step and what it returned
  unit        \* SpecTask: the in-memory task and the last method call on it

vars == <<store, nextId, semaphore, engines, ctxDone, loop, workDirs, lastOp, unit>>
sysVars == <<store, nextId, semaphore, engines, ctxDone, loop, workDirs, lastOp>>

NoTask == [status |-> "none"]
NoOp == [op |-> "none"]
NoUnit == [fn |-> "none"]
NoResult == [Success |-> FALSE, Error |-> "nil", BranchURL |-> FALSE, PRURL |-> FALSE]
\* a processTask goroutine at position pc, started with this copy of row id;
\* sec is the second in the name of its working directory (0 until the name
\* is built)
Engine(pc, id, task) == [pc |-> pc, id |-> id, task |-> task, sec |-> 0]

\* a models.Task value; the fields not listed by the caller are zero values
Row(status, prompt, attempts, summary) ==
  [status |-> status, prompt |-> prompt, attempts |-> attempts,
   summary |-> summary, branchURL |-> FALSE, prURL |-> FALSE,
   repo |-> "", branch |-> "", ciRunID |-> "nil"]

Exists(st, id) == id \in Ids /\ st[id] # NoTask

\* ---------------------------------------------------------- services layer
Nil == [msg |-> "nil"]
Err(m) == [msg |-> m]

\* db.Save(task): the update callbacks run BeforeUpdate first and write the
\* whole row only when the hook returns no error
Save(st, id, row) ==
  IF BeforeUpdate(row) # "nil"
    THEN [store |-> st, err |-> Err(BeforeUpdate(row))]
    ELSE [store |-> [st EXCEPT ![id] = row], err |-> Nil]

GetTask(st, id) == IF Exists(st, id) THEN st[id] ELSE NoTask

\* fmt.Errorf(prefix + ": %w", err) around a failed store call
Wrap(prefix, r) ==
  IF r.err = Nil THEN r
  ELSE [store |-> r.store, err |-> [r.err EXCEPT !.msg = prefix \o ": " \o @]]

\* TaskService.UpdateTask(id, action, prompt); prompt "" means none given.
\* The switch yields the task to save, or returns (done) with its error.
UpdateTask(st, id, action, prompt) ==
  IF ~Exists(st, id)
    THEN [store |-> st, err |-> Err("task not found")]
    ELSE
      LET task == GetTask(st, id)
          sw ==
            CASE action = "continue" ->
                   IF ~IsRetryable(task, 3)
                     THEN [done |-> TRUE, task |-> task,
                           err |-> [msg |-> "task cannot be continued",
                                    status |-> task.status, attempts |-> task.attempts]]
                     ELSE
                       LET t1 == IF prompt # "" THEN [task EXCEPT !.prompt = prompt]
                                                ELSE task
                           r  == UpdateStatus(t1, "queued")
                       IN IF r.err # "nil"
                            THEN [done |-> TRUE, task |-> task,
                                  err |-> Err("failed to update task status: " \o r.err)]
                            ELSE [done |-> FALSE, task |-> r.task, err |-> Nil]
              [] action = "abort" ->
                   IF /\ IsTerminal(task.status) /\ task.status # "aborted"
                      /\ task.status = "success"
                     THEN [done |-> TRUE, task |-> task, err |-> Nil]
                     ELSE
                       LET r == UpdateStatus(task, "aborted")
                       IN IF r.err # "nil"
                            THEN [done |-> TRUE, task |-> task,
                                  err |-> Err("failed to abort task: " \o r.err)]
                            ELSE [done |-> FALSE, task |-> r.task, err |-> Nil]
              [] OTHER -> [done |-> TRUE, task |-> task, err |-> Err("invalid action")]
      IN IF sw.done
           THEN [store |-> st, err |-> sw.err]
           ELSE Wrap("failed to save updated task", Save(st, id, sw.task))

\* mutant: the query orders by created_at DESC
GetNextTask_newestFirst(st) ==
  LET queued == {i \in Ids : Exists(st, i) /\ st[i].status = "queued"}
  IN IF queued = {} THEN 0
     ELSE CHOOSE i \in queued : \A j \in queued : i >= j

\* TaskService.GetNextTask: id of the oldest queued row, 0 when there is none
\* (ids are in creation order, so the smallest id has the smallest created_at)
GetNextTask(st) ==
  LET queued == {i \in Ids : Exists(st, i) /\ st[i].status = "queued"}
  IN IF queued = {} THEN 0
     ELSE CHOOSE i \in queued : \A j \in queued : i <= j

\* TaskService.UpdateTaskStatus: read the row, overwrite status, save
UpdateTaskStatus(st, id, status) ==
  IF ~Exists(st, id)
    THEN [store |-> st, err |-> Err("task not found")]
    ELSE Wrap("failed to update task status",
              Save(st, id, [st[id] EXCEPT !.status = status]))

\* TaskService.UpdateTaskModel: save the caller's copy of the task
UpdateTaskModel(st, id, task) == Wrap("failed to update task", Save(st, id, task))

\* ------------------------------------------------------------ HTTP handler
\* status code chosen by TaskHandler.UpdateTask for the service's error
UpdateTaskCode(err) ==
  IF err = Nil THEN 204
  ELSE IF err.msg = "task not found" THEN 404
  ELSE IF \/ err = [msg |-> "task cannot be continued", status |-> "success", attempts |-> 3]
          \/ err = Err("failed to update task status: invalid value")
         THEN 409
  ELSE 500

\* mutant: the task is built without the submitted repo
NewTask_noRepo(repo, prompt, prefix) ==
  [Row("queued", prompt, 0, "") EXCEPT !.branch = "amp/" \o prefix]

\* mutant: the task starts with more attempts than the retry budget
NewTask_overBudget(repo, prompt, prefix) ==
  [Row("queued", prompt, 4, "") EXCEPT !.repo = repo, !.branch = "amp/" \o prefix]

\* the models.Task literal of TaskService.CreateTask; prefix is id[:6]
NewTask(repo, prompt, prefix) ==
  [Row("queued", prompt, 0, "") EXCEPT !.repo = repo, !.branch = "amp/" \o prefix]

\* POST /tasks -> TaskService.CreateTask; the response carries id and branch
CreateTask(repo, prompt, prefix) ==
  /\ nextId < MaxTasks
  /\ LET id == nextId + 1
         task == BeforeCreate(NewTask(repo, prompt, prefix))
     IN /\ store' = [store EXCEPT ![id] = task]
        /\ nextId' = id
        /\ lastOp' = [op |-> "create", id |-> id, prompt |-> prompt, code |-> 201,
                      pre |-> NoTask, repo |-> repo, branch |-> task.branch]
  /\ UNCHANGED <<semaphore, engines, ctxDone, loop, workDirs, unit>>

\* handlers.ToTaskResponse
ToTaskResponse(id, task) ==
  [id |-> id, repo |-> task.repo, branch |-> task.branch, prompt |-> task.prompt,
   status |-> task.status, ciRunID |-> task.ciRunID, attempts |-> task.attempts,
   summary |-> task.summary]

\* GET /tasks/{id} -> TaskHandler.GetTask; after records the request this one
\* follows when that was a POST /tasks
TaskHandler_GetTask(id) ==
  /\ lastOp' = [op |-> "get", id |-> id,
                code |-> IF Exists(store, id) THEN 200 ELSE 404,
                task |-> IF Exists(store, id) THEN ToTaskResponse(id, GetTask(store, id))
                                              ELSE NoTask,
                after |-> IF lastOp.op = "create" THEN lastOp ELSE NoOp]
  /\ UNCHANGED <<store, nextId, semaphore, engines, ctxDone, loop, workDirs, unit>>

\* PATCH /tasks/{id} -> TaskHandler.UpdateTask
TaskHandler_UpdateTask(id, action, prompt) ==
  /\ IF action \notin {"continue", "abort"}
       THEN /\ lastOp' = [op |-> action, id |-> id, prompt |-> prompt, code |-> 400,
                          pre |-> GetTask(store, id)]
            /\ UNCHANGED store
       ELSE LET r == UpdateTask(store, id, action, prompt)
            IN /\ store' = r.store
               /\ lastOp' = [op |-> action, id |-> id, prompt |-> prompt,
                             code |-> UpdateTaskCode(r.err), pre |-> GetTask(store, id)]
  /\ UNCHANGED <<nextId, semaphore, engines, ctxDone, loop, workDirs, unit>>

\* ------------------------------------------------------------------ worker
Running == BagToSet(engines)

\* goroutine e moves to position pc
Goto(e, pc) == (engines (-) SetToBag({e})) (+) SetToBag({[e EXCEPT !.pc = pc]})

\* Worker.Stop: cancel the worker context
Stop ==
  /\ ~ctxDone
  /\ ctxDone' = TRUE
  /\ lastOp' = NoOp
  /\ UNCHANGED <<store, nextId, semaphore, engines, loop, workDirs, unit>>

\* Worker.Start: the select takes the ctx.Done branch and Start returns
StartReturn ==
  /\ loop = "polling"
  /\ ctxDone
  /\ loop' = "returned"
  /\ lastOp' = NoOp
  /\ UNCHANGED <<store, nextId, semaphore, engines, ctxDone, workDirs, unit>>

\* mutant: the slot is granted while the semaphore already holds
\* MaxConcurrency elements
pollForTasks_offByOne(dbErr) ==
  /\ loop = "polling"
  /\ IF semaphore <= MaxConcurrency
       THEN \* slot acquired
            LET id == GetNextTask(store) IN
            IF dbErr \/ id = 0
              THEN \* slot released at once
                   /\ lastOp' = [op |-> "poll", id |-> 0, code |-> IF dbErr THEN 500 ELSE 0]
                   /\ UNCHANGED <<semaphore, engines>>
              ELSE \* go w.processTask(task)
                   /\ semaphore' = semaphore + 1
                   /\ engines' = engines (+) SetToBag({Engine("mark", id, store[id])})
                   /\ lastOp' = [op |-> "poll", id |-> id, code |-> 0]
       ELSE \* all workers busy, skip this poll
            /\ lastOp' = [op |-> "poll", id |-> 0, code |-> 429]
            /\ UNCHANGED <<semaphore, engines>>
  /\ UNCHANGED <<store, nextId, ctxDone, loop, workDirs, unit>>

\* runWorker returns after Start has returned: the process ends, and with it
\* every goroutine; what is on disk stays
Exit ==
  /\ loop = "returned"
  /\ loop' = "exited"
  /\ engines' = EmptyBag
  /\ semaphore' = 0
  /\ lastOp' = NoOp
  /\ UNCHANGED <<store, nextId, ctxDone, workDirs, unit>>

\* Worker.pollForTasks on a ticker tick; dbErr is a failing store query
pollForTasks(dbErr) ==
  /\ loop = "polling"
  /\ IF semaphore < MaxConcurrency
       THEN \* slot acquired
            LET id == GetNextTask(store) IN
            IF dbErr \/ id = 0
              THEN \* slot released at once
                   /\ lastOp' = [op |-> "poll", id |-> 0, code |-> IF dbErr THEN 500 ELSE 0]
                   /\ UNCHANGED <<semaphore, engines>>
              ELSE \* go w.processTask(task)
                   /\ semaphore' = semaphore + 1
                   /\ engines' = engines (+) SetToBag({Engine("mark", id, store[id])})
                   /\ lastOp' = [op |-> "poll", id |-> id, code |-> 0]
       ELSE \* all workers busy, skip this poll
            /\ lastOp' = [op |-> "poll", id |-> 0, code |-> 429]
            /\ UNCHANGED <<semaphore, engines>>
  /\ UNCHANGED <<store, nextId, ctxDone, loop, workDirs, unit>>

\* generateWorkDir: "task-%d-%s" of the task id and of time.Now() formatted
\* to the second
generateWorkDir(id, now) == <<id, now>>

\* processor.workDir of goroutine e
WorkDir(e) == generateWorkDir(e.id, e.sec)

\* the goroutines that have created the working directory named dir
InWorkDir(dir) ==
  [e \in {f \in Running : f.pc \notin {"mark", "mkdir"} /\ WorkDir(f) = dir} |->
     CopiesIn(e, engines)]

Return_keepSlot(e) ==
  /\ semaphore' = semaphore
  /\ engines' = engines (-) SetToBag({e})

\* processTask returns: the deferred receive frees the slot
Return(e) ==
  /\ semaphore' = semaphore - 1
  /\ engines' = engines (-) SetToBag({e})

\* processTask, first step: UpdateTaskStatus(task.ID, "running"), then the
\* TaskProcessor is built with the directory name of second sec
processTask(e, dbErr, sec) ==
  /\ e.pc = "mark"
  /\ LET r == UpdateTaskStatus(store, e.id, "running") IN
     IF dbErr \/ r.err # Nil
       THEN /\ Return(e)
            /\ lastOp' = [op |-> "mark", id |-> e.id, code |-> 500, pre |-> store[e.id]]
            /\ UNCHANGED store
       ELSE /\ store' = r.store
            /\ engines' = (engines (-) SetToBag({e}))
                            (+) SetToBag({[e EXCEPT !.pc = "mkdir", !.sec = sec]})
            /\ lastOp' = [op |-> "mark", id |-> e.id, code |-> 0, pre |-> store[e.id]]
            /\ UNCHANGED semaphore
  /\ UNCHANGED <<nextId, ctxDone, loop, workDirs, unit>>

StepAfter_skipCommit(pc) ==
  CASE pc = "mkdir"  -> "clone"
    [] pc = "clone"  -> "branch"
    [] pc = "branch" -> "amp"
    [] pc = "amp"    -> "push"
    [] pc = "commit" -> "push"
    [] pc = "push"   -> "pr"

\* the step Execute goes on to when step pc has succeeded
StepAfter(pc) ==
  CASE pc = "mkdir"  -> "clone"
    [] pc = "clone"  -> "branch"
    [] pc = "branch" -> "amp"
    [] pc = "amp"    -> "commit"
    [] pc = "commit" -> "push"
    [] pc = "push"   -> "pr"

\* steps that run an external command under the worker context
UsesContext(pc) == pc \in {"clone", "branch", "amp", "commit", "push"}

\* the copy of the task processTask hands to UpdateTaskModel
FinishedTask(task, result) ==
  IF result.Success
    THEN [task EXCEPT !.status = "completed",
                      !.branchURL = result.BranchURL, !.prURL = result.PRURL]
    ELSE [task EXCEPT !.status = "failed"]

\* processTask after Execute returned result: set the status of its copy of
\* the task, UpdateTaskModel, os.RemoveAll(processor.workDir), return.
\* ci is the conclusion of the CI run on the pushed branch ("none" when
\* nothing was pushed); no statement of Execute or processTask reads it
Finish(e, result, ci) ==
  LET id == e.id
      task == FinishedTask(e.task, result)
      r == UpdateTaskModel(store, id, task)
  IN /\ store' = r.store
     /\ lastOp' = [op |-> "UpdateTaskModel", id |-> id,
                   code |-> IF r.err = Nil THEN 0 ELSE 500,
                   status |-> task.status, pre |-> store[id], result |-> result,
                   ci |-> ci]
     /\ workDirs' = IF e.pc = "mkdir" THEN workDirs
                                      ELSE workDirs (-) SetToBag({WorkDir(e)})
     /\ Return(e)

\* the branch Execute creates in step 3 and pushes in step 6:
\* fmt.Sprintf("amp-task-%d", tp.task.ID)
branchName(e) == "amp-task-" \o ToString(e.id)

\* TaskProcessor.Execute, steps 1-3 and 6: a step that succeeds leads to the
\* next one; a step that fails sets result.Error and Execute returns to
\* processTask. A command started under a cancelled context fails.
Execute(e, ok) ==
  /\ e.pc \in {"mkdir", "clone", "branch", "push"}
  /\ ok => ~(UsesContext(e.pc) /\ ctxDone)
  /\ IF ok
       THEN /\ engines' = Goto(e, StepAfter(e.pc))
            /\ workDirs' = IF e.pc = "mkdir"
                             THEN workDirs (+) SetToBag({WorkDir(e)}) ELSE workDirs
            /\ lastOp' = IF e.pc = "push"
                           THEN [op |-> "PushBranch", id |-> e.id, branch |-> branchName(e)]
                           ELSE NoOp
            /\ UNCHANGED <<store, semaphore>>
       ELSE Finish(e, [NoResult EXCEPT !.Error = e.pc], "none")
  /\ UNCHANGED <<nextId, ctxDone, loop, unit>>

\* TaskProcessor.Execute, step 4: AmpOperations.ExecutePrompt. cmdOK: the amp
\* command ran and its output was parsed; selfReport: the output made
\* parseAmpOutput set Success; changed: detectChangedFiles found changed files.
\* ExecutePrompt reports Success when either holds.
ExecuteAmp(e, cmdOK, selfReport, changed) ==
  /\ e.pc = "amp"
  /\ cmdOK => ~ctxDone
  /\ IF cmdOK /\ (changed \/ selfReport)
       THEN /\ engines' = Goto(e, StepAfter(e.pc))
            /\ lastOp' = NoOp
            /\ UNCHANGED <<store, semaphore, workDirs>>
       ELSE Finish(e, [NoResult EXCEPT !.Error = "amp"], "none")
  /\ UNCHANGED <<nextId, ctxDone, loop, unit>>

\* TaskProcessor.Execute, step 5: GitOperations.CommitChanges. cmdOK: git
\* add, status and commit run without error; changed: git status reports a
\* change. ExecutePrompt has reported Success before, with changed files or
\* on the word of the generator alone, so both values of changed occur.
ExecuteCommit(e, cmdOK, changed) ==
  /\ e.pc = "commit"
  /\ cmdOK => ~ctxDone
  /\ IF cmdOK /\ changed
       THEN /\ engines' = Goto(e, StepAfter(e.pc))
            /\ lastOp' = NoOp
            /\ UNCHANGED <<store, semaphore, workDirs>>
       ELSE Finish(e, [NoResult EXCEPT !.Error = IF cmdOK THEN "no changes to commit"
                                                          ELSE e.pc], "none")
  /\ UNCHANGED <<nextId, ctxDone, loop, unit>>

\* conclusions of the CI run that the push triggers
CIConclusions == {"success", "failure"}

\* TaskProcessor.Execute, step 7 and the successful return to processTask:
\* remoteOK: GetRemoteURL returned a URL; token: a GitHub token is configured;
\* prOK: CreatePullRequest returned no error
ExecutePR(e, remoteOK, token, prOK, ci) ==
  /\ e.pc = "pr"
  /\ remoteOK => ~ctxDone
  /\ Finish(e, [Success |-> TRUE, Error |-> "nil", BranchURL |-> remoteOK,
                PRURL |-> remoteOK /\ token /\ prOK], ci)
  /\ UNCHANGED <<nextId, ctxDone, loop, unit>>

\* ------------------------------------------------- models.Task, method calls
AnyStatus == ValidStatuses \cup InvalidStatuses

Call(fn, before, after, arg, ret) ==
  [fn |-> fn, from |-> before, task |-> after, arg |-> arg, ret |-> ret]

BoolStr(b) == IF b THEN "true" ELSE "false"

Task_CanTransitionTo(newStatus) ==
  /\ unit' = Call("CanTransitionTo", unit.task, unit.task, newStatus,
                  BoolStr(CanTransitionTo(unit.task.status, newStatus)))
  /\ UNCHANGED sysVars

Task_UpdateStatus(newStatus) ==
  /\ LET r == UpdateStatus(unit.task, newStatus)
     IN unit' = Call("UpdateStatus", unit.task, r.task, newStatus, r.err)
  /\ UNCHANGED sysVars

Task_IsRetryable(maxRetries) ==
  /\ unit' = Call("IsRetryable", unit.task, unit.task, maxRetries,
                  BoolStr(IsRetryable(unit.task, maxRetries)))
  /\ UNCHANGED sysVars

Task_IncrementAttempts ==
  /\ unit.task.attempts < MaxAttempts
  /\ unit' = Call("IncrementAttempts", unit.task, IncrementAttempts(unit.task), "", "nil")
  /\ UNCHANGED sysVars

Task_BeforeCreate ==
  /\ unit' = Call("BeforeCreate", unit.task, BeforeCreate(unit.task), "", "nil")
  /\ UNCHANGED sysVars

Task_BeforeUpdate ==
  /\ unit' = Call("BeforeUpdate", unit.task, unit.task, "", BeforeUpdate(unit.task))
  /\ UNCHANGED sysVars

\* --------------------------------------------------------- specifications
InitWorker ==
  /\ semaphore = 0
  /\ engines = EmptyBag
  /\ ctxDone = FALSE
  /\ loop = "polling"
  /\ workDirs = EmptyBag

\* a fresh database, API server and worker started
Init ==
  /\ store = [i \in Ids |-> NoTask]
  /\ nextId = 0
  /\ InitWorker
  /\ lastOp = NoOp
  /\ unit = NoUnit

\* a database holding one row inserted with db.Create (BeforeCreate applied)
InitSeeded ==
  /\ \E raw \in AnyStatus, a \in 0..MaxAttempts :
       /\ store = [i \in Ids |->
                     IF i = 1
                       THEN BeforeCreate([Row(raw, "p1", a, SeedSummary)
                                            EXCEPT !.repo = "r1", !.branch = "amp/01J000"])
                       ELSE NoTask]
       /\ lastOp = [op |-> "seed", id |-> 1, status |-> raw]
  /\ nextId = 1
  /\ InitWorker
  /\ unit = NoUnit

\* a step of some processTask goroutine
EngineStep ==
  \/ \E e \in Running, dbErr \in BOOLEAN, sec \in ClockSeconds :
       processTask(e, dbErr, sec)
  \/ \E e \in Running, ok \in BOOLEAN : Execute(e, ok)
  \/ \E e \in Running, cmdOK \in BOOLEAN, selfReport \in BOOLEAN, changed \in BOOLEAN :
       ExecuteAmp(e, cmdOK, selfReport, changed)
  \/ \E e \in Running, cmdOK \in BOOLEAN, changed \in BOOLEAN :
       ExecuteCommit(e, cmdOK, changed)
  \/ \E e \in Running, remoteOK \in BOOLEAN, token \in BOOLEAN, prOK \in BOOLEAN,
          ci \in CIConclusions :
       ExecutePR(e, remoteOK, token, prOK, ci)

\* the worker process: poll ticks, the processTask goroutines, shutdown
WorkerStep ==
  \/ \E dbErr \in BOOLEAN : pollForTasks(dbErr)
  \/ EngineStep
  \/ Stop
  \/ StartReturn
  \/ Exit

\* PATCH requests and the worker; no task is created
NextSeeded ==
  \/ \E i \in Ids, p \in PatchPrompts : TaskHandler_UpdateTask(i, "continue", p)
  \/ \E i \in Ids : TaskHandler_UpdateTask(i, "abort", "")
  \/ WorkerStep

\* POST and PATCH requests and the worker; every continue carries a prompt
Next ==
  \/ \E r \in NewRepos, p \in NewPrompts, x \in ULIDPrefixes : CreateTask(r, p, x)
  \/ \E i \in Ids, p \in PatchPrompts \ {""} : TaskHandler_UpdateTask(i, "continue", p)
  \/ \E i \in Ids : TaskHandler_UpdateTask(i, "abort", "")
  \/ WorkerStep

Spec == Init /\ [][Next]_vars

\* Spec under fair scheduling: a goroutine that can take a step eventually
\* takes one (the Go scheduler starves no runnable goroutine, and every
\* external command returns)
SpecFair == Spec /\ WF_vars(EngineStep)

\* the worker command is started again after the process has ended: runWorker
\* opens the database, builds a Worker with worker.New and calls Start, which
\* goes straight to its polling loop
Restart ==
  /\ loop = "exited"
  /\ loop' = "polling"
  /\ ctxDone' = FALSE
  /\ semaphore' = 0
  /\ engines' = EmptyBag
  /\ lastOp' = [op |-> "restart"]
  /\ UNCHANGED <<store, nextId, workDirs, unit>>

NextRestart ==
  \/ Restart
  \/ Next

\* Spec with restarts of the worker process, under fair scheduling of the
\* goroutines and of the ticker
SpecRestart ==
  /\ Init /\ [][NextRestart]_vars
  /\ WF_vars(EngineStep)
  /\ WF_vars(\E dbErr \in BOOLEAN : pollForTasks(dbErr))

\* the API with its GET endpoint, and the worker
NextAPI ==
  \/ \E i \in Ids : TaskHandler_GetTask(i)
  \/ Next

SpecAPI == Init /\ [][NextAPI]_vars

SpecSeeded == InitSeeded /\ [][NextSeeded]_vars

\* ------------------------------------------------------------ GET /tasks
DefaultLimit == 50     \* c.DefaultQuery("limit", "50")
LimitCap == 100        \* if limit > 100 { limit = 100 }

\* a query parameter: absent, text that is not a number, or a decimal number
Absent == [kind |-> "absent", val |-> 0]
Text == [kind |-> "text", val |-> 0]
Num(n) == [kind |-> "int", val |-> n]
QueryInts == {-1, 0, 1, 2, DefaultLimit, LimitCap, LimitCap + 1, 1000}
QueryValues == {Absent, Text} \cup {Num(n) : n \in QueryInts}
QueryStatuses == {"", "queued", "invalid"}
\* numbers of rows that have the status asked for
RowCounts == {0, 1, DefaultLimit + 1, LimitCap, MaxRows - 1, MaxRows}

\* gin Context.DefaultQuery
DefaultQuery(q, default) == IF q.kind = "absent" THEN Num(default) ELSE q

\* strconv.Atoi
Atoi(q) == IF q.kind = "int" THEN [val |-> q.val, err |-> FALSE]
                             ELSE [val |-> 0, err |-> TRUE]

Min(a, b) == IF a < b THEN a ELSE b

\* TaskService.ListTasks on a table in which rows rows have the status asked
\* for: the number of tasks returned, -1 for the invalid-status error
Service_ListTasks(rows, status, limit, offset) ==
  IF status # "" /\ ~IsValid(status) THEN -1
  ELSE LET afterOffset == IF offset > 0
                            THEN (IF rows > offset THEN rows - offset ELSE 0)
                            ELSE rows
       IN IF limit > 0 THEN Min(limit, afterOffset) ELSE afterOffset

\* TaskHandler.ListTasks: the response code and the number of tasks in it
ListTasks(rows, status, limitQ, offsetQ) ==
  LET limit == Atoi(DefaultQuery(limitQ, DefaultLimit))
      offset == Atoi(DefaultQuery(offsetQ, 0))
  IN IF limit.err \/ limit.val < 0 THEN [code |-> 400, count |-> 0]
     ELSE IF offset.err \/ offset.val < 0 THEN [code |-> 400, count |-> 0]
     ELSE LET n == Service_ListTasks(rows, status,
                     IF limit.val > LimitCap THEN LimitCap ELSE limit.val, offset.val)
          IN IF n < 0 THEN [code |-> 400, count |-> 0]
                      ELSE [code |-> 200, count |-> n]

TaskHandler_ListTasks(rows, status, limitQ, offsetQ) ==
  /\ unit' = [fn |-> "ListTasks", rows |-> rows, status |-> status,
               limit |-> limitQ, offset |-> offsetQ,
               resp |-> ListTasks(rows, status, limitQ, offsetQ)]
  /\ UNCHANGED sysVars

InitTask ==
  /\ store = [i \in Ids |-> NoTask]
  /\ nextId = 0
  /\ InitWorker
  /\ lastOp = NoOp
  /\ \E st \in AnyStatus, a \in 0..MaxAttempts :
       unit = Call("new", Row(st, "p1", a, ""), Row(st, "p1", a, ""), "", "nil")

NextTask ==
  \/ \E st \in AnyStatus : Task_CanTransitionTo(st)
  \/ \E st \in AnyStatus : Task_UpdateStatus(st)
  \/ \E m \in 0..MaxAttempts : Task_IsRetryable(m)
  \/ Task_IncrementAttempts
  \/ Task_BeforeCreate
  \/ Task_BeforeUpdate

SpecTask == InitTask /\ [][NextTask]_vars

\* ------------------------------------------- CreateTask, id and branch name
\* Crockford base 32, the alphabet of ULID.String()
Alphabet ==
  <<"0", "1", "2", "3", "4", "5", "6", "7", "8", "9", "A", "B", "C", "D", "E", "F",
    "G", "H", "J", "K", "M", "N", "P", "Q", "R", "S", "T", "V", "W", "X", "Y", "Z">>

\* n written with width digits of the alphabet, most significant first
Base32(n, width) ==
  [k \in 1..width |-> Alphabet[((n \div (Len(Alphabet) ^ (width - k))) % Len(Alphabet)) + 1]]

\* clock readings of ulid.Make in milliseconds, each given as
\* <<ms \div 32^4, ms % 32^4>>, and values of its entropy
ClockMs == {<<1706000, 0>>, <<1706000, 1>>, <<1706000, 1048575>>, <<1706001, 0>>}
Entropies == {0, 1, 2, 33}

\* ulid.Make().String(): ten characters of the time in milliseconds followed
\* by sixteen characters of entropy
ulid_Make(ms, entropy) ==
  Base32(ms[1], 6) \o Base32(ms[2], 4) \o Base32(0, 5) \o Base32(0, 5) \o Base32(entropy, 6)

RECURSIVE Join(_)
Join(cs) == IF cs = <<>> THEN "" ELSE Head(cs) \o Join(Tail(cs))

\* id[:n]
Prefix(id, n) == Join(SubSeq(id, 1, n))

\* TaskService.CreateTask: the id, branch and thread id of the new task
NewTaskNames(id) ==
  [ID |-> Join(id), Branch |-> "amp/" \o Prefix(id, 6),
   ThreadID |-> "thread-" \o Prefix(id, 8)]

\* two calls of TaskService.CreateTask, the second not before the first; the
\* insert of a task whose id is already a primary key fails
TaskService_CreateTask(ms1, entropy1, ms2, entropy2) ==
  /\ ms1[1] < ms2[1] \/ (ms1[1] = ms2[1] /\ ms1[2] <= ms2[2])
  /\ ulid_Make(ms1, entropy1) # ulid_Make(ms2, entropy2)
  /\ unit' = [fn |-> "CreateTask",
               first |-> NewTaskNames(ulid_Make(ms1, entropy1)),
               second |-> NewTaskNames(ulid_Make(ms2, entropy2))]
  /\ UNCHANGED sysVars

NextULID ==
  \E ms1 \in ClockMs, ms2 \in ClockMs, entropy1 \in Entropies, entropy2 \in Entropies :
    TaskService_CreateTask(ms1, entropy1, ms2, entropy2)

InitList ==
  /\ store = [i \in Ids |-> NoTask]
  /\ nextId = 0
  /\ InitWorker
  /\ lastOp = NoOp
  /\ unit = NoUnit

NextList ==
  \E rows \in RowCounts, status \in QueryStatuses,
     limitQ \in QueryValues, offsetQ \in QueryValues :
    TaskHandler_ListTasks(rows, status, limitQ, offsetQ)

SpecList == InitList /\ [][NextList]_vars

SpecULID == InitList /\ [][NextULID]_vars

\* ------------------------------------------------------------- properties
Pairs(from, tos) == {<<from, to>> : to \in tos}

\* the transition table of section 3.2 of the specification
SpecTable ==
  Pairs("queued", {"running", "aborted"})
  \cup Pairs("running", {"retrying", "needs_review", "success", "error", "aborted"})
  \cup Pairs("retrying", {"running", "queued", "needs_review", "error", "aborted"})
  \cup Pairs("needs_review", {"queued", "aborted"})
  \cup Pairs("aborted", {"aborted"})

\* the table enumerated by TestTask_CanTransitionTo
AuthorsTable ==
  Pairs("queued", {"running", "aborted"})
  \cup Pairs("running", {"retrying", "needs_review", "success", "error", "aborted"})
  \cup Pairs("retrying", {"running", "needs_review", "error", "aborted"})
  \cup Pairs("needs_review", {"running", "aborted"})
  \cup Pairs("success", {"aborted"})
  \cup Pairs("error", {"aborted"})
  \cup Pairs("aborted", {"aborted"})

\* C1: no task is claimed twice -- at no time do two processTask goroutines
\* hold the same task (a task handed out stays away from every other
\* goroutine until it has left the running state).
C1_NoTaskClaimedTwice ==
  \A e \in Running :
    /\ CopiesIn(e, engines) = 1
    /\ \A f \in Running : f # e => f.id # e.id

\* C2: every step that changes the stored status of a task changes it along
\* a pair (from, to) of the section 3.2 table.
C2_OnlyTableTransitions ==
  [][\A i \in Ids :
       (Exists(store, i) /\ store'[i].status # store[i].status)
         => <<store[i].status, store'[i].status>> \in SpecTable]_vars

\* C3: the stored status of every task is always one of the seven statuses;
\* a row created with an invalid or empty status is stored as queued, and an
\* update carrying another status value is rejected and leaves the row as it was.
C3_StoredStatusValid ==
  /\ \A i \in Ids : Exists(store, i) => store[i].status \in ValidStatuses
  /\ (lastOp.op = "seed" /\ lastOp.status \notin ValidStatuses)
       => store[lastOp.id].status = "queued"
  /\ (lastOp.op = "UpdateTaskModel" /\ lastOp.status \notin ValidStatuses)
       => (lastOp.code # 0 /\ store[lastOp.id] = lastOp.pre)

C3_Witness ==
  /\ lastOp.op = "UpdateTaskModel"
  /\ lastOp.status = "completed"
  /\ lastOp.code = 500
  /\ store[lastOp.id] = lastOp.pre

\* C4: for every pair (from, to) of the seven statuses Task.UpdateStatus
\* succeeds exactly when (from, to) is in the section 3.2 table.
C4_UpdateStatusFollowsSpecTable ==
  (unit.fn = "UpdateStatus" /\ unit.from.status \in ValidStatuses
                            /\ unit.arg \in ValidStatuses)
    => (unit.ret = "nil" <=> <<unit.from.status, unit.arg>> \in SpecTable)

\* C5: for every pair of statuses Task.CanTransitionTo answers as the
\* authors' table says: terminal statuses allow aborted only, and the other
\* four allow exactly their listed targets.
C5_CanTransitionToAuthorsTable ==
  (unit.fn = "CanTransitionTo" /\ unit.from.status \in ValidStatuses
                               /\ unit.arg \in ValidStatuses)
    => (unit.ret = "true" <=> <<unit.from.status, unit.arg>> \in AuthorsTable)

C5_Witness ==
  /\ unit.fn = "CanTransitionTo"
  /\ unit.from.status = "success"
  /\ unit.arg = "aborted"
  /\ unit.ret = "true"

\* C6: Task.UpdateStatus is all-or-nothing: a transition that is not allowed
\* returns an error and leaves the status as it was; an allowed one returns
\* no error and the status is the requested one.
C6_UpdateStatusAllOrNothing ==
  unit.fn = "UpdateStatus"
    => IF CanTransitionTo(unit.from.status, unit.arg)
         THEN unit.ret = "nil" /\ unit.task.status = unit.arg
         ELSE unit.ret # "nil" /\ unit.task.status = unit.from.status

C6_Witness ==
  /\ unit.fn = "UpdateStatus"
  /\ unit.from.status = "queued"
  /\ unit.arg = "success"
  /\ unit.ret = "invalid value"
  /\ unit.task.status = "queued"

\* C7: continue on a task in error, retrying or needs_review succeeds and
\* leaves the task queued, with the new prompt if one was given (else the old
\* one) and attempts unchanged.
C7_ContinueRequeues ==
  (lastOp.op = "continue" /\ lastOp.pre.status \in {"error", "retrying", "needs_review"})
    => /\ lastOp.code = 204
       /\ store[lastOp.id].status = "queued"
       /\ store[lastOp.id].prompt =
            (IF lastOp.prompt # "" THEN lastOp.prompt ELSE lastOp.pre.prompt)
       /\ store[lastOp.id].attempts = lastOp.pre.attempts

\* C8: continue on a task in success, queued, running or aborted is rejected
\* with Conflict (409), whatever its attempts, and leaves the row unchanged.
C8_ContinueDisallowedIsConflict ==
  (lastOp.op = "continue" /\ lastOp.pre.status \in {"success", "queued", "running", "aborted"})
    => (lastOp.code = 409 /\ store[lastOp.id] = lastOp.pre)

\* C9: abort on a task in a non-terminal status (queued, running, retrying,
\* needs_review) returns success and leaves the stored status aborted.
C9_AbortNonTerminal ==
  (lastOp.op = "abort"
     /\ lastOp.pre.status \in {"queued", "running", "retrying", "needs_review"})
    => (lastOp.code = 204 /\ store[lastOp.id].status = "aborted")

C9_Witness ==
  /\ lastOp.op = "abort"
  /\ lastOp.pre.status = "needs_review"
  /\ lastOp.code = 204
  /\ store[lastOp.id].status = "aborted"

\* C10: abort on a task that is already aborted returns success and leaves
\* status, prompt, attempts and summary as they were, however often repeated.
C10_AbortIdempotent ==
  (lastOp.op = "abort" /\ lastOp.pre.status = "aborted")
    => /\ lastOp.code = 204
       /\ store[lastOp.id].status = lastOp.pre.status
       /\ store[lastOp.id].prompt = lastOp.pre.prompt
       /\ store[lastOp.id].attempts = lastOp.pre.attempts
       /\ store[lastOp.id].summary = lastOp.pre.summary

C10_Witness ==
  /\ lastOp.op = "abort"
  /\ lastOp.pre.status = "aborted"
  /\ lastOp.pre.summary = SeedSummary
  /\ lastOp.code = 204
  /\ store[lastOp.id] = lastOp.pre

\* C11: terminal statuses are final -- no step changes a stored status of
\* success, error or aborted into a different status.
C11_TerminalIsFinal ==
  [][\A i \in Ids :
       (Exists(store, i) /\ IsTerminal(store[i].status))
         => store'[i].status = store[i].status]_vars

\* C12: a GET that directly follows the POST that created the task, for the
\* id that POST returned, answers 200 with the submitted repo and prompt,
\* status queued, attempts 0, the id and branch of the POST response, and no
\* ci_run_id.
C12_CreateThenGet ==
  (lastOp.op = "get" /\ lastOp.after.op = "create" /\ lastOp.id = lastOp.after.id)
    => /\ lastOp.code = 200
       /\ lastOp.task.id = lastOp.after.id
       /\ lastOp.task.repo = lastOp.after.repo
       /\ lastOp.task.prompt = lastOp.after.prompt
       /\ lastOp.task.branch = lastOp.after.branch
       /\ lastOp.task.status = "queued"
       /\ lastOp.task.attempts = 0
       /\ lastOp.task.ciRunID = "nil"

C12_Witness ==
  /\ lastOp.op = "get"
  /\ lastOp.after.op = "create"
  /\ lastOp.id = lastOp.after.id
  /\ lastOp.id = MaxTasks
  /\ lastOp.code = 200
  /\ lastOp.task.repo = "r1"
  /\ lastOp.task.branch = "amp/01J000"

\* C13: every stored task has attempts <= 3 (max_retries), whatever requests
\* and worker steps led to the state.
C13_AttemptsWithinBudget ==
  \A i \in Ids : Exists(store, i) => store[i].attempts <= 3

\* a task that was handed to the worker, aborted, and whose engine run ended
C13_Witness ==
  /\ lastOp.op = "UpdateTaskModel"
  /\ store[lastOp.id].status = "aborted"
  /\ store[lastOp.id].attempts <= 3

\* C14: never more than max_concurrency engines run at once, and a poll tick
\* that finds every slot taken starts no engine and changes no task.
C14_ConcurrencyBounded ==
  [][/\ BagCardinality(engines) <= MaxConcurrency
     /\ BagCardinality(engines') <= MaxConcurrency
     /\ (lastOp'.op = "poll" /\ BagCardinality(engines) = MaxConcurrency)
          => (lastOp'.id = 0 /\ UNCHANGED <<store, engines, semaphore>>)]_vars

C14_Witness ==
  /\ lastOp.op = "poll"
  /\ lastOp.code = 429
  /\ BagCardinality(engines) = MaxConcurrency
  /\ \E i \in Ids : Exists(store, i) /\ store[i].status = "queued"

\* C15: once Stop has been called and Start has returned, no engine is
\* executing and no task is stored as running.
C15_QuietAfterShutdown ==
  (ctxDone /\ loop = "returned")
    => /\ engines = EmptyBag
       /\ \A i \in Ids : Exists(store, i) => store[i].status # "running"

\* C16: dispatch is FIFO by created_at -- the task a poll tick takes, and the
\* task a goroutine marks running, has no older task that is still queued.
C16_DispatchFIFO ==
  ((lastOp.op = "poll" /\ lastOp.id # 0) \/ (lastOp.op = "mark" /\ lastOp.code = 0))
    => \A j \in Ids :
         (j < lastOp.id /\ Exists(store, j)) => store[j].status # "queued"

\* two tasks are queued and the poll tick took the older one
C16_Witness ==
  /\ lastOp.op = "poll"
  /\ lastOp.id = 1
  /\ Exists(store, 2)
  /\ store[1].status = "queued"
  /\ store[2].status = "queued"

\* C17: every claimed task terminates -- under fair scheduling a task stored
\* as running is eventually stored as success, aborted, error or needs_review.
C17_RunningTerminates ==
  \A i \in Ids :
    (store[i].status = "running")
      ~> (store[i].status \in {"success", "aborted", "error", "needs_review"})

\* C18: the stored task reflects the engine's result -- after a successful
\* run the stored status is success with branch_url set (and pr_url when a pull
\* request was opened); after a run that failed at clone, branch creation or
\* push the stored status is error.
C18_StoredResult ==
  lastOp.op = "UpdateTaskModel"
    => /\ lastOp.result.Success
            => /\ store[lastOp.id].status = "success"
               /\ store[lastOp.id].branchURL
               /\ lastOp.result.PRURL => store[lastOp.id].prURL
       /\ lastOp.result.Error \in {"clone", "branch", "push"}
            => store[lastOp.id].status = "error"

\* C19: an abort stored while an engine executes the task stops the engine at
\* its next step boundary -- an engine whose task is stored as aborted does not
\* go on to a further step of Execute.
C19_AbortStopsEngine ==
  [][\A e \in Running :
       (store[e.id].status = "aborted"
          /\ e.pc \in {"mkdir", "clone", "branch", "amp", "commit", "push"})
         => engines' # Goto(e, StepAfter(e.pc))]_vars

\* C20: a working directory is removed on every exit path of the engine that
\* created it -- the goroutines that have created a directory and not removed
\* it are goroutines that have not yet returned.
C20_WorkDirRemoved ==
  \A dir \in BagToSet(workDirs) :
    CopiesIn(dir, workDirs) <= BagCardinality(InWorkDir(dir))

\* C21: restart recovery -- a task that is stored as running when the worker
\* process is started again is eventually stored as queued (and from there
\* dispatched again), with the attempts it had.
C21_RestartRecovers ==
  \A i \in Ids : \A a \in 0..MaxAttempts :
    (lastOp.op = "restart" /\ store[i].status = "running" /\ store[i].attempts = a)
      ~> (store[i].status = "queued" /\ store[i].attempts = a)

\* C22: retry budget boundary -- an engine run whose push is followed by a
\* failing CI run leaves the task with attempts one higher; with status
\* needs_review when attempts thereby reaches 3 (max_retries), and retrying or
\* running again when it stays below.
C22_RetryBudgetBoundary ==
  (lastOp.op = "UpdateTaskModel" /\ lastOp.ci = "failure"
     /\ lastOp.pre.status = "running" /\ lastOp.pre.attempts < 3)
    => /\ store[lastOp.id].attempts = lastOp.pre.attempts + 1
       /\ IF lastOp.pre.attempts = 2
            THEN store[lastOp.id].status = "needs_review"
            ELSE store[lastOp.id].status \in {"retrying", "running"}

\* C23: an engine run in which the generator reported success but no file
\* changed leaves the task stored as needs_review (not success, not error),
\* and no push was made in that run.
C23_NoChangeNeedsReview ==
  (lastOp.op = "UpdateTaskModel" /\ lastOp.result.Error = "no changes to commit"
     /\ lastOp.pre.status = "running")
    => store[lastOp.id].status = "needs_review"

\* C24: a list response never holds more than 100 tasks, whatever the limit
\* (0 and an absent limit included); a limit above 100 gives the response of
\* limit 100; a negative limit or offset is rejected and returns no task.
C24_ListAtMost100 ==
  unit.fn = "ListTasks"
    => /\ unit.resp.count <= 100
       /\ (unit.limit.kind = "int" /\ unit.limit.val > 100)
            => unit.resp = ListTasks(unit.rows, unit.status, Num(100), unit.offset)
       /\ (\/ unit.limit.kind = "int" /\ unit.limit.val < 0
           \/ unit.offset.kind = "int" /\ unit.offset.val < 0)
            => unit.resp.code = 400 /\ unit.resp.count = 0

\* C25: the branch an engine pushes for a task is the branch stored in the
\* task's row, the one CreateTask derived from the id.
C25_PushesStoredBranch ==
  lastOp.op = "PushBranch" => lastOp.branch = store[lastOp.id].branch

\* C26: no two engines that are executing at the same time have the same
\* working directory, two runs of the same task included.
C26_WorkDirsDistinct ==
  \A e \in Running : e.pc # "mark" =>
    /\ CopiesIn(e, engines) = 1
    /\ \A f \in Running : (f # e /\ f.pc # "mark") => WorkDir(f) # WorkDir(e)

\* the order of section 4.2: working directory, clone, create branch,
\* generate, commit, push, pull request
StepOrder ==
  {<<"mark", "mkdir">>, <<"mkdir", "clone">>, <<"clone", "branch">>,
   <<"branch", "amp">>, <<"amp", "commit">>, <<"commit", "push">>, <<"push", "pr">>}

\* C27: within one engine run the steps occur only in the order clone, create
\* branch, generate, commit, push, pull request -- an engine enters a step only
\* from the step before it, a push is made only by an engine that is past its
\* commit, a failed step ends the run (its result names that step and the
\* engine is gone), and no result is a failure because of the pull request.
C27_StepsInOrder ==
  [][/\ \A f \in BagToSet(engines') :
          CopiesIn(f, engines') > CopiesIn(f, engines)
            => \/ f.pc = "mark"
               \/ \E e \in Running :
                    /\ CopiesIn(e, engines') < CopiesIn(e, engines)
                    /\ e.id = f.id
                    /\ <<e.pc, f.pc>> \in StepOrder
     /\ (lastOp'.op = "PushBranch" /\ lastOp' # lastOp)
          => \E e \in Running : e.pc = "push" /\ e.id = lastOp'.id
                                  /\ engines' = Goto(e, "pr")
     /\ (lastOp'.op = "UpdateTaskModel" /\ engines' # engines)
          => /\ \E e \in Running :
                  /\ e.id = lastOp'.id
                  /\ engines' = engines (-) SetToBag({e})
                  /\ IF lastOp'.result.Success
                       THEN e.pc = "pr" /\ lastOp'.result.Error = "nil"
                       ELSE /\ e.pc \in {"mkdir", "clone", "branch", "amp", "commit", "push"}
                            /\ lastOp'.result.Error \in {e.pc, "no changes to commit"}]_vars

\* a run that pushed, found the remote and could not open the pull request
\* has returned a successful result
C27_Witness ==
  /\ lastOp.op = "UpdateTaskModel"
  /\ lastOp.result.Success
  /\ lastOp.result.BranchURL
  /\ ~lastOp.result.PRURL

\* C28: a task aborted while queued is never run -- after an abort of a queued
\* task has answered with success, the next step of the system leaves the
\* stored status aborted (it does not become running).
C28_AbortedQueuedNeverRuns ==
  [][(/\ lastOp.op = "abort"
      /\ lastOp.code = 204
      /\ lastOp.pre.status = "queued"
      /\ store[lastOp.id].status = "aborted")
       => store'[lastOp.id].status = "aborted"]_vars

\* C29: semaphore slots are never leaked -- the slots taken are exactly those
\* of the processTask goroutines that have not returned, so when no engine is
\* in progress every slot is free.
C29_NoSlotLeak ==
  /\ semaphore = BagCardinality(engines)
  /\ engines = EmptyBag => semaphore = 0

\* an engine whose UpdateTaskStatus(running) failed has returned and every
\* slot is free again
C29_Witness ==
  /\ lastOp.op = "mark"
  /\ lastOp.code = 500
  /\ loop = "polling"
  /\ engines = EmptyBag
  /\ semaphore = 0

\* C30: any two distinct tasks created by CreateTask have different branch
\* names.
C30_BranchesDistinct ==
  (unit.fn = "CreateTask" /\ unit.first.ID # unit.second.ID)
    => unit.first.Branch # unit.second.Branch

====
